---------------------------- MODULE Spec2Model ----------------------------
(***************************************************************************)
(* Model of src/data_create.py: the affiliation ETL pipeline.              *)
(*                                                                         *)
(* Text is modelled as a sequence of one-character strings, so that        *)
(* startswith, split, int() and the regular expression of the file-name    *)
(* dater are computed character by character, as the code computes them.   *)
(* A spreadsheet cell is NaN (missing), Num(n) (a number) or Str(s)        *)
(* (text).  A table (DataFrame) is [cols |-> set of column names,          *)
(* rows |-> sequence of functions from cols to cells].                     *)
(***************************************************************************)
EXTENDS Integers, Sequences, FiniteSets, TLC

(***************************************************************************)
(* Bounds of the model.                                                    *)
(***************************************************************************)
MaxFiles == 2
MaxRows == 2
MaxDeriveRows == 1
MaxSanitizeRows == 2
MaxAggRows == 3

(***************************************************************************)
(* Cells and text.                                                         *)
(***************************************************************************)
NaN == [k |-> "nan"]
Num(n) == [k |-> "num", n |-> n]
Str(s) == [k |-> "str", s |-> s]

IsNaN(c) == c.k = "nan"
IsNum(c) == c.k = "num"
IsStr(c) == c.k = "str"

Digits == <<"0","1","2","3","4","5","6","7","8","9">>

IsDigit(ch) == \E i \in 1..10 : Digits[i] = ch

DigitVal(ch) == (CHOOSE i \in 1..10 : Digits[i] = ch) - 1

IsSpace(ch) == ch = " "

AllDigits(s) == Len(s) > 0 /\ \A i \in 1..Len(s) : IsDigit(s[i])

RECURSIVE DecVal(_)
DecVal(s) == IF Len(s) = 0 THEN 0
             ELSE 10 * DecVal(SubSeq(s, 1, Len(s) - 1)) + DigitVal(s[Len(s)])

RECURSIVE NatToText(_)
NatToText(n) == IF n < 10 THEN <<Digits[n + 1]>>
                ELSE NatToText(n \div 10) \o <<Digits[(n % 10) + 1]>>

\* str(x) of an integer
IntToText(n) == IF n < 0 THEN <<"-">> \o NatToText(0 - n) ELSE NatToText(n)

\* An optionally signed run of decimal digits, the integer literals both int()
\* and pd.to_numeric accept.
IsIntText(s) ==
    IF Len(s) > 0 /\ s[1] \in {"+", "-"} THEN AllDigits(Tail(s)) ELSE AllDigits(s)

IntOfText(s) ==
    IF s[1] = "-" THEN 0 - DecVal(Tail(s))
    ELSE IF s[1] = "+" THEN DecVal(Tail(s))
    ELSE DecVal(s)

StartsWith(s, p) == Len(s) >= Len(p) /\ SubSeq(s, 1, Len(p)) = p

\* Series.astype(str) on one cell
AsTypeStr(c) ==
    IF IsNaN(c) THEN <<"n","a","n">>
    ELSE IF IsNum(c) THEN IntToText(c.n)
    ELSE c.s

\* str.split()[0]: the first whitespace-separated token; <<>> stands for the
\* IndexError of an empty split.
RECURSIVE LStrip(_)
LStrip(s) == IF Len(s) > 0 /\ IsSpace(s[1]) THEN LStrip(Tail(s)) ELSE s

RECURSIVE TakeToken(_)
TakeToken(s) == IF Len(s) = 0 \/ IsSpace(s[1]) THEN <<>>
                ELSE <<s[1]>> \o TakeToken(Tail(s))

FirstToken(s) == TakeToken(LStrip(s))

(***************************************************************************)
(* Literals of the source.                                                 *)
(***************************************************************************)
PROVINCIAL == <<"P","R","O","V","I","N","C","I","A","L">>
NACIONAL == <<"N","A","C","I","O","N","A","L">>
SIN_DISTRIBUCION == <<"S","I","N"," ","D","I","S","T","R","I","B","U","C","I","Ó","N">>
SIN_DISTRIBUCION_STAR == SIN_DISTRIBUCION \o <<" ","(","*",")">>
CENSORED == <<"<","5">>
AFILIADOS_MUNI == <<"A","f","i","l","i","a","d","o","s","M","u","n","i","-">>
YearThreshold == 2012

(***************************************************************************)
(* get_date_from_filename: re.search(r"AfiliadosMuni-(\d{2})-(\d{4})").    *)
(***************************************************************************)
\* The pattern matches at position i of the name.
MatchAt(filename, i) ==
    /\ i + 20 <= Len(filename)
    /\ SubSeq(filename, i, i + 13) = AFILIADOS_MUNI
    /\ AllDigits(SubSeq(filename, i + 14, i + 15))
    /\ filename[i + 16] = "-"
    /\ AllDigits(SubSeq(filename, i + 17, i + 20))

get_date_from_filename(filename) ==
    IF \E i \in 1..Len(filename) : MatchAt(filename, i)
    THEN LET i == CHOOSE j \in 1..Len(filename) :
                      /\ MatchAt(filename, j)
                      /\ \A h \in 1..(j - 1) : ~MatchAt(filename, h)
         IN [ok |-> TRUE,
             month |-> DecVal(SubSeq(filename, i + 14, i + 15)),
             year |-> DecVal(SubSeq(filename, i + 17, i + 20))]
    ELSE [ok |-> FALSE, error |-> "ValueError"]


(***************************************************************************)
(* Tables.  A row is a function from the table's columns to cells.         *)
(***************************************************************************)
Table(cols, rows) == [cols |-> cols, rows |-> rows]

RECURSIVE SelectSeq2(_, _)
\* data[mask]: the rows whose index is in keep, in order
SelectSeq2(rows, keep) ==
    IF Len(rows) = 0 THEN <<>>
    ELSE LET n == Len(rows)
             front == SelectSeq2(SubSeq(rows, 1, n - 1), keep)
         IN IF n \in keep THEN Append(front, rows[n]) ELSE front

\* dropna with how="any" in place of how="all".
DropAnyMissing(t) ==
    Table(t.cols,
          SelectSeq2(t.rows, {i \in 1..Len(t.rows) :
                                  \A c \in t.cols : ~IsNaN(t.rows[i][c])}))

\* DataFrame.dropna(how="all")
DropAllMissing(t) ==
    Table(t.cols,
          SelectSeq2(t.rows, {i \in 1..Len(t.rows) :
                                  \E c \in t.cols : ~IsNaN(t.rows[i][c])}))

\* data[~data[col].astype(str).str.startswith(prefix)]
DropStartingWith(t, col, prefix) ==
    Table(t.cols,
          SelectSeq2(t.rows, {i \in 1..Len(t.rows) :
                                  ~StartsWith(AsTypeStr(t.rows[i][col]), prefix)}))

\* The three row filters of the try block, in the order of the code, for a
\* table that has the columns PROVINCIA and MUNICIPIO.
RowFilters(t) ==
    DropStartingWith(DropStartingWith(DropAllMissing(t), "PROVINCIA", <<"(">>),
                     "MUNICIPIO", SIN_DISTRIBUCION)

\* data[col] = value
SetColumn(t, col, cell) ==
    Table(t.cols \cup {col},
          [i \in 1..Len(t.rows) |->
              [c \in t.cols \cup {col} |-> IF c = col THEN cell ELSE t.rows[i][c]]])

\* The column_renames dictionary of load_and_combine_data.
column_renames(c) ==
    CASE c = "Reg. General(1)" -> "GENERAL"
      [] c = "TRAB." -> "TRAB"
      [] c = "R. G.- S.E.Agrario" -> "AGRARIO"
      [] c = "R.E.MAR" -> "MAR"
      [] c = "HOGAR (2)" -> "HOGAR"
      [] c = "R.E.Autónomos" -> "AUTONOMOS"
      [] c = "R.E. Carbón" -> "CARBON"
      [] c = "R. G.- S.E.Hogar(2)" -> "HOGAR"
      [] c = "R. E. MAR" -> "MAR"
      [] c = "R. E. T. Autónomos" -> "AUTONOMOS"
      [] c = "R. E. M. Carbón" -> "CARBON"
      [] c = "R. G.- S.E.Hogar" -> "HOGAR"
      [] c = "R. E. MAR " -> "MAR"
      [] OTHER -> c

\* data.rename(columns=column_renames), for a table in which no two headers
\* are renamed to the same name (the inputs of the model are such tables).
Rename(t) ==
    LET newcols == {column_renames(c) : c \in t.cols}
        old(n) == CHOOSE c \in t.cols : column_renames(c) = n
    IN Table(newcols,
             [i \in 1..Len(t.rows) |-> [n \in newcols |-> t.rows[i][old(n)]]])

\* The try block with a default date in place of the dater's exception.
ProcessFileUndated(file) ==
    IF ~file.readable THEN [ok |-> FALSE, error |-> "read_excel"]
    ELSE LET d1 == DropAllMissing(file.table)
         IN IF "PROVINCIA" \notin d1.cols THEN [ok |-> FALSE, error |-> "KeyError"]
            ELSE LET d2 == DropStartingWith(d1, "PROVINCIA", <<"(">>)
                 IN IF "MUNICIPIO" \notin d2.cols
                    THEN [ok |-> FALSE, error |-> "KeyError"]
                    ELSE LET d3 == DropStartingWith(d2, "MUNICIPIO", SIN_DISTRIBUCION)
                             date == get_date_from_filename(file.name)
                             year == IF date.ok THEN date.year ELSE 0
                             month == IF date.ok THEN date.month ELSE 0
                         IN [ok |-> TRUE,
                             frame |-> Rename(SetColumn(SetColumn(d3,
                                           "year", Num(year)), "month", Num(month)))]

\* The body of the try block for one file: [ok |-> TRUE, frame |-> table], or
\* [ok |-> FALSE, error |-> exception] when a step raises.
ProcessFile(file) ==
    IF ~file.readable THEN [ok |-> FALSE, error |-> "read_excel"]
    ELSE LET d1 == DropAllMissing(file.table)
         IN IF "PROVINCIA" \notin d1.cols THEN [ok |-> FALSE, error |-> "KeyError"]
            ELSE LET d2 == DropStartingWith(d1, "PROVINCIA", <<"(">>)
                 IN IF "MUNICIPIO" \notin d2.cols
                    THEN [ok |-> FALSE, error |-> "KeyError"]
                    ELSE LET d3 == DropStartingWith(d2, "MUNICIPIO", SIN_DISTRIBUCION)
                             date == get_date_from_filename(file.name)
                         IN IF ~date.ok THEN [ok |-> FALSE, error |-> date.error]
                            ELSE [ok |-> TRUE,
                                  frame |-> Rename(SetColumn(SetColumn(d3,
                                                "year", Num(date.year)),
                                                "month", Num(date.month)))]

\* pd.concat(data_frames, ignore_index=True): the union of the columns, a
\* frame's missing columns filled with NaN.
RECURSIVE ConcatRows(_, _)
ConcatRows(frames, cols) ==
    IF Len(frames) = 0 THEN <<>>
    ELSE LET f == Head(frames)
         IN [i \in 1..Len(f.rows) |->
                [c \in cols |-> IF c \in f.cols THEN f.rows[i][c] ELSE NaN]]
            \o ConcatRows(Tail(frames), cols)

Concat(frames) ==
    LET cols == UNION {frames[i].cols : i \in 1..Len(frames)}
    IN Table(cols, ConcatRows(frames, cols))

(***************************************************************************)
(* clean_numeric_columns                                                   *)
(***************************************************************************)
numeric_columns == {"GENERAL", "AGRARIO", "MAR", "HOGAR", "AUTONOMOS", "CARBON", "TOTAL"}

\* pd.to_numeric(text, errors="coerce") on integer literals; any other text,
\* "nan" included, is coerced to NaN.
ToNumeric(s) == IF IsIntText(s) THEN Num(IntOfText(s)) ELSE NaN

CleanCell(c) ==
    LET s == AsTypeStr(c)
    IN IF s = CENSORED THEN NaN ELSE ToNumeric(s)

clean_numeric_columns(t) ==
    Table(t.cols,
          [i \in 1..Len(t.rows) |->
              [c \in t.cols |-> IF c \in numeric_columns THEN CleanCell(t.rows[i][c])
                                ELSE t.rows[i][c]]])

(***************************************************************************)
(* determine_afiliados                                                     *)
(***************************************************************************)
\* Float addition: NaN when either operand is NaN.
Add(a, b) == IF IsNaN(a) \/ IsNaN(b) THEN NaN ELSE Num(a.n + b.n)

\* The rule with the boundary year on the wrong side.
AfiliadosThroughThreshold(year, general, hogar) ==
    IF year.n <= YearThreshold \/ IsNaN(hogar) THEN general ELSE Add(general, hogar)

\* The rule without its guard on a missing HOGAR.
AfiliadosUnguarded(year, general, hogar) ==
    IF year.n < YearThreshold THEN general ELSE Add(general, hogar)

\* np.where((year < 2012) | HOGAR.isna(), GENERAL, GENERAL + HOGAR) on one row
Afiliados(year, general, hogar) ==
    IF year.n < YearThreshold \/ IsNaN(hogar) THEN general ELSE Add(general, hogar)

MetricCols == {"PROVINCIA", "MUNICIPIO", "year", "month", "AFILIADOS"}

determine_afiliados(t) ==
    IF ~({"year", "HOGAR", "GENERAL", "PROVINCIA", "MUNICIPIO", "month"} \subseteq t.cols)
    THEN [ok |-> FALSE, error |-> "KeyError"]
    ELSE [ok |-> TRUE,
          data |-> Table(MetricCols,
              [i \in 1..Len(t.rows) |->
                 [c \in MetricCols |->
                    IF c = "AFILIADOS"
                    THEN Afiliados(t.rows[i]["year"], t.rows[i]["GENERAL"],
                                   t.rows[i]["HOGAR"])
                    ELSE t.rows[i][c]]])]

(***************************************************************************)
(* extract_municipality_codes and the three aggregations.                  *)
(***************************************************************************)
RECURSIVE Gcd(_, _)
Gcd(a, b) == IF b = 0 THEN a ELSE Gcd(b, a % b)

Abs(x) == IF x < 0 THEN 0 - x ELSE x

\* The quotient total / count as a fraction in lowest terms (the float the
\* division yields is a function of this value alone).
Quotient(total, count) ==
    LET g == Gcd(Abs(total), count)
    IN [k |-> "num", n |-> total \div g, d |-> count \div g]

\* int(name.split()[0]) for one label: the exceptions are those of a label
\* that is no text, has no token, or whose first token is no integer.
CodeOf(cell) ==
    IF ~IsStr(cell) THEN [ok |-> FALSE, error |-> "AttributeError"]
    ELSE LET tok == FirstToken(cell.s)
         IN IF Len(tok) = 0 THEN [ok |-> FALSE, error |-> "IndexError"]
            ELSE IF ~IsIntText(tok) THEN [ok |-> FALSE, error |-> "ValueError"]
            ELSE [ok |-> TRUE, code |-> IntOfText(tok)]

extract_municipality_codes(series) ==
    LET valid == SelectSeq2(series, {i \in 1..Len(series) :
                     ~IsNaN(series[i]) /\ series[i] # Str(SIN_DISTRIBUCION_STAR)})
    IN IF \E i \in 1..Len(valid) : ~CodeOf(valid[i]).ok
       THEN LET first == CHOOSE i \in 1..Len(valid) :
                             /\ ~CodeOf(valid[i]).ok
                             /\ \A j \in 1..(i - 1) : CodeOf(valid[j]).ok
            IN [ok |-> FALSE, error |-> CodeOf(valid[first]).error]
       ELSE [ok |-> TRUE, codes |-> [i \in 1..Len(valid) |-> CodeOf(valid[i]).code]]

\* The pass with a missing value counted as 0 (a fillna(0) before the mean).
RECURSIVE GroupSumsNaNAsZero(_)
GroupSumsNaNAsZero(pairs) ==
    IF Len(pairs) = 0 THEN [keys |-> {}, at |-> <<>>]
    ELSE LET n == Len(pairs)
             acc == GroupSumsNaNAsZero(SubSeq(pairs, 1, n - 1))
             p == pairs[n]
             old == IF p.key \in acc.keys THEN acc.at[p.key]
                    ELSE [total |-> 0, count |-> 0]
             new == IF IsNaN(p.val) THEN [total |-> old.total, count |-> old.count + 1]
                    ELSE [total |-> old.total + p.val.n, count |-> old.count + 1]
         IN IF p.dropped THEN acc
            ELSE [keys |-> acc.keys \cup {p.key},
                  at |-> [k \in acc.keys \cup {p.key} |->
                             IF k = p.key THEN new ELSE acc.at[k]]]

\* The pass keeping only the last value of each key (last() for mean()).
RECURSIVE GroupSumsLast(_)
GroupSumsLast(pairs) ==
    IF Len(pairs) = 0 THEN [keys |-> {}, at |-> <<>>]
    ELSE LET n == Len(pairs)
             acc == GroupSumsLast(SubSeq(pairs, 1, n - 1))
             p == pairs[n]
             old == IF p.key \in acc.keys THEN acc.at[p.key]
                    ELSE [total |-> 0, count |-> 0]
             new == IF IsNaN(p.val) THEN old
                    ELSE [total |-> p.val.n, count |-> 1]
         IN IF p.dropped THEN acc
            ELSE [keys |-> acc.keys \cup {p.key},
                  at |-> [k \in acc.keys \cup {p.key} |->
                             IF k = p.key THEN new ELSE acc.at[k]]]

\* One pass of groupby(keys)[AFILIADOS].mean() over the rows in table order:
\* per key, the sum and the count of the values that are not NaN.  pairs is
\* a sequence of [key, dropped, val]; dropped marks a row whose key holds a
\* NaN, which groupby leaves out.
RECURSIVE GroupSums(_)
GroupSums(pairs) ==
    IF Len(pairs) = 0 THEN [keys |-> {}, at |-> <<>>]
    ELSE LET n == Len(pairs)
             acc == GroupSums(SubSeq(pairs, 1, n - 1))
             p == pairs[n]
             old == IF p.key \in acc.keys THEN acc.at[p.key]
                    ELSE [total |-> 0, count |-> 0]
             new == IF IsNaN(p.val) THEN old
                    ELSE [total |-> old.total + p.val.n, count |-> old.count + 1]
         IN IF p.dropped THEN acc
            ELSE [keys |-> acc.keys \cup {p.key},
                  at |-> [k \in acc.keys \cup {p.key} |->
                             IF k = p.key THEN new ELSE acc.at[k]]]

\* Series.mean() of one group, skipping NaN: NaN for a group without values.
GroupMean(g) == IF g.count = 0 THEN NaN ELSE Quotient(g.total, g.count)

\* The aggregation with the rows of unparsable labels left out.
create_municipality_averages_skipping(data) ==
    LET rows == data.rows
        muni_data == SelectSeq2(rows, {i \in 1..Len(rows) :
                         /\ ~IsNaN(rows[i]["MUNICIPIO"])
                         /\ rows[i]["MUNICIPIO"] # Str(PROVINCIAL)
                         /\ CodeOf(rows[i]["MUNICIPIO"]).ok})
        sums == GroupSums([i \in 1..Len(muni_data) |->
                    [key |-> <<CodeOf(muni_data[i]["MUNICIPIO"]).code,
                               muni_data[i]["year"].n>>,
                     dropped |-> FALSE,
                     val |-> muni_data[i]["AFILIADOS"]]])
    IN [ok |-> TRUE,
        averages |-> {[MUNI_CODE |-> key[1], year |-> key[2],
                       AFILIADOS |-> GroupMean(sums.at[key])] : key \in sums.keys}]

create_municipality_averages(data) ==
    LET rows == data.rows
        muni_data == SelectSeq2(rows, {i \in 1..Len(rows) :
                         /\ ~IsNaN(rows[i]["MUNICIPIO"])
                         /\ rows[i]["MUNICIPIO"] # Str(PROVINCIAL)})
        ext == extract_municipality_codes(
                   [i \in 1..Len(muni_data) |-> muni_data[i]["MUNICIPIO"]])
    IN IF ~ext.ok THEN [ok |-> FALSE, error |-> ext.error]
       ELSE IF Len(ext.codes) # Len(muni_data)
       THEN [ok |-> FALSE, error |-> "ValueError"]
       ELSE LET sums == GroupSums([i \in 1..Len(muni_data) |->
                            [key |-> <<ext.codes[i], muni_data[i]["year"].n>>,
                             dropped |-> FALSE,
                             val |-> muni_data[i]["AFILIADOS"]]])
            IN [ok |-> TRUE,
                averages |-> {[MUNI_CODE |-> key[1], year |-> key[2],
                               AFILIADOS |-> GroupMean(sums.at[key])] :
                              key \in sums.keys}]

create_national_averages(data) ==
    LET rows == data.rows
        national_data == SelectSeq2(rows, {i \in 1..Len(rows) :
                             rows[i]["PROVINCIA"] = Str(NACIONAL)})
        sums == GroupSums([i \in 1..Len(national_data) |->
                    [key |-> national_data[i]["year"].n,
                     dropped |-> FALSE,
                     val |-> national_data[i]["AFILIADOS"]]])
    IN {[PROVINCIA |-> Str(NACIONAL), year |-> key, AFILIADOS |-> GroupMean(sums.at[key])] :
        key \in sums.keys}

create_provincial_averages(data) ==
    LET rows == data.rows
        provincial_data == SelectSeq2(rows, {i \in 1..Len(rows) :
                               rows[i]["MUNICIPIO"] = Str(PROVINCIAL)})
        sums == GroupSums([i \in 1..Len(provincial_data) |->
                    [key |-> <<provincial_data[i]["PROVINCIA"],
                               provincial_data[i]["year"].n>>,
                     dropped |-> IsNaN(provincial_data[i]["PROVINCIA"]),
                     val |-> provincial_data[i]["AFILIADOS"]]])
    IN {[PROVINCIA |-> key[1], year |-> key[2], AFILIADOS |-> GroupMean(sums.at[key])] :
        key \in sums.keys}

(***************************************************************************)
(* The inputs: the files of DATA_DIR.  A file is its name and the table    *)
(* read_excel gives for it (readable = FALSE: read_excel raises).          *)
(***************************************************************************)
N_2011 == AFILIADOS_MUNI \o <<"0","3","-","2","0","1","1",".","x","l","s","x">>
N_2013 == AFILIADOS_MUNI \o <<"0","1","-","2","0","1","3","_","l","a","t","e","_","d","a","t","a",".","x","l","s","x">>
N_2013B == AFILIADOS_MUNI \o <<"0","2","-","2","0","1","3",".","x","l","s","x">>
N_NODATE == <<"A","f","i","l","i","a","d","o","s","-","0","1","-","2","0","1","3",".","x","l","s","x">>

FileNames == {N_2011, N_2013, N_2013B, N_NODATE}

H_EARLY == {"PROVINCIA", "MUNICIPIO", "Reg. General(1)", "HOGAR (2)"}
H_LATE == {"PROVINCIA", "MUNICIPIO", "Reg. General(1)", "R. G.- S.E.Hogar", "R. E. MAR ", "TOTAL"}
H_NOHOGAR == {"PROVINCIA", "MUNICIPIO", "Reg. General(1)"}
H_NOPROVINCIA == {"MUNICIPIO", "Reg. General(1)", "HOGAR (2)"}

MADRID == <<"M","A","D","R","I","D">>
L_12040_TOWN == <<"1","2","0","4","0"," ","E","x","a","m","p","l","e"," ","T","o","w","n">>
L_12040_OTRO == <<"1","2","0","4","0"," ","O","t","r","o">>
L_NOCODE == <<"E","x","a","m","p","l","e"," ","T","o","w","n">>
L_FOOTNOTE == <<"(","1",")"," ","N","o","t","a">>

SheetRow(prov, muni, gen, hog) == [prov |-> prov, muni |-> muni, gen |-> gen, hog |-> hog]

SheetRows ==
    { SheetRow(Str(NACIONAL), NaN, Num(1000), Num(50)),
      SheetRow(Str(MADRID), Str(PROVINCIAL), Num(10), Str(CENSORED)),
      SheetRow(Str(MADRID), Str(L_12040_OTRO), Num(20), Num(10)),
      SheetRow(Str(MADRID), Str(L_12040_TOWN), Str(CENSORED), Num(10)),
      SheetRow(Str(MADRID), Str(L_NOCODE), Num(10), NaN),
      SheetRow(Str(L_FOOTNOTE), NaN, NaN, NaN),
      SheetRow(Str(MADRID), Str(SIN_DISTRIBUCION_STAR), Num(10), NaN) }

\* The row of a sheet with header h that holds r's values.
RawRow(h, r) ==
    [c \in h |-> CASE c = "PROVINCIA" -> r.prov
                   [] c = "MUNICIPIO" -> r.muni
                   [] column_renames(c) = "GENERAL" -> r.gen
                   [] c = "TOTAL" -> r.gen
                   [] OTHER -> r.hog]

Sheets(h) ==
    UNION { {Table(h, [i \in 1..n |-> RawRow(h, rs[i])]) : rs \in [1..n -> SheetRows]}
            : n \in 0..MaxRows }

File(name, readable, table) == [name |-> name, readable |-> readable, table |-> table]

HeadersOf(name) ==
    IF name = N_2011 THEN {H_EARLY}
    ELSE IF name = N_2013 THEN {H_LATE}
    ELSE IF name = N_2013B THEN {H_NOHOGAR}
    ELSE {H_EARLY}

OneRowSheet(h) == Table(h, <<RawRow(h, SheetRow(Str(MADRID), Str(PROVINCIAL), Num(10), NaN))>>)

\* The undated name fails whatever its sheet holds: two sheets stand for all.
FilesNamed(name) ==
    IF name = N_NODATE
    THEN {File(name, TRUE, OneRowSheet(H_EARLY)),
          File(name, TRUE, Table(H_EARLY,
              <<RawRow(H_EARLY, SheetRow(Str(NACIONAL), NaN, Num(1000), Num(50))),
                RawRow(H_EARLY, SheetRow(Str(MADRID), Str(L_12040_OTRO), Num(20), Num(10)))>>))}
    ELSE {File(name, TRUE, t) : t \in UNION {Sheets(h) : h \in HeadersOf(name)}}
         \cup {File(name, TRUE, OneRowSheet(H_NOPROVINCIA)),
               File(name, FALSE, Table({}, <<>>))}

(***************************************************************************)
(* The run of main().                                                      *)
(***************************************************************************)
VARIABLES
    pc,           \* where main() is
    data_dir,     \* the files of DATA_DIR
    excel_files,  \* the files the glob listed
    todo,         \* the files the loop has still to process
    data_frames,  \* the accumulator of load_and_combine_data
    data,         \* the table main() holds
    disk,         \* OUTPUT_DIR: the content of each output file
    writes,       \* the to_csv calls so far, in order
    console,      \* the per-file lines printed by the loop
    error,        \* the exception that ended the run
    arg, ret      \* argument and result of a function applied on its own

vars == <<pc, data_dir, excel_files, todo, data_frames, data, disk, writes, console, error, arg, ret>>

Absent == [present |-> FALSE]
Written(content) == [present |-> TRUE, content |-> content]

OutputFiles == {"all_data.csv", "averages_muni.csv", "averages_nacional.csv",
                "averages_provincial.csv"}

NoTable == Table({}, <<>>)

\* DataFrame.to_csv(OUTPUT_DIR / file)
ToCsv(d, file, content) == [d EXCEPT ![file] = Written(content)]

LogWrite(w, file) == Append(w, file)

Init ==
    /\ pc = "start"
    /\ data_dir = {}
    /\ excel_files = {}
    /\ todo = {}
    /\ data_frames = <<>>
    /\ data = NoTable
    /\ disk = [f \in OutputFiles |-> Absent]
    /\ writes = <<>>
    /\ console = <<>>
    /\ error = "none"
    /\ arg = "none"
    /\ ret = "none"

\* Before the run, the download step moves a file into DATA_DIR (at most
\* MaxFiles of them, no two of one name).
MoveNewFile(file) ==
    /\ pc = "start"
    /\ Cardinality(data_dir) < MaxFiles
    /\ \A f \in data_dir : f.name # file.name
    /\ data_dir' = data_dir \cup {file}
    /\ UNCHANGED <<pc, excel_files, todo, data_frames, data, disk, writes, console,
                   error, arg, ret>>

\* excel_files = list(DATA_DIR.glob("*.xlsx")); raise if there are none
ListFiles ==
    /\ pc = "start"
    /\ excel_files' = data_dir
    /\ IF data_dir = {}
       THEN /\ pc' = "error"
            /\ error' = "FileNotFoundError"
            /\ todo' = todo
       ELSE /\ pc' = "loop"
            /\ error' = error
            /\ todo' = data_dir
    /\ UNCHANGED <<data_dir, data_frames, data, disk, writes, console, arg, ret>>

\* One iteration of the loop over excel_files: the try block and its handler.
LoopBody(file) ==
    /\ pc = "loop"
    /\ file \in todo
    /\ LET res == ProcessFile(file)
       IN IF res.ok
          THEN /\ data_frames' = Append(data_frames, res.frame)
               /\ console' = Append(console, [name |-> file.name, line |-> "Extracted date"])
          ELSE /\ data_frames' = data_frames
               /\ console' = Append(console, [name |-> file.name, line |-> "Error processing"])
    /\ todo' = todo \ {file}
    /\ UNCHANGED <<pc, data_dir, excel_files, data, disk, writes, error, arg, ret>>

\* The end of load_and_combine_data without its to_csv.
CombineWithoutSave ==
    /\ pc = "loop"
    /\ todo = {}
    /\ IF Len(data_frames) = 0
       THEN /\ pc' = "error"
            /\ error' = "ValueError: no valid data files"
            /\ UNCHANGED <<data, disk, writes>>
       ELSE /\ pc' = "clean"
            /\ data' = Concat(data_frames)
            /\ UNCHANGED <<disk, writes>>
            /\ error' = error
    /\ UNCHANGED <<data_dir, excel_files, todo, data_frames, console, arg, ret>>

\* After the loop: raise if no frame was appended, else concatenate, save
\* all_data.csv and return the combined table to main().
Combine ==
    /\ pc = "loop"
    /\ todo = {}
    /\ IF Len(data_frames) = 0
       THEN /\ pc' = "error"
            /\ error' = "ValueError: no valid data files"
            /\ UNCHANGED <<data, disk, writes>>
       ELSE /\ pc' = "clean"
            /\ data' = Concat(data_frames)
            /\ disk' = ToCsv(disk, "all_data.csv", Concat(data_frames))
            /\ writes' = LogWrite(writes, "all_data.csv")
            /\ error' = error
    /\ UNCHANGED <<data_dir, excel_files, todo, data_frames, console, arg, ret>>

\* data = clean_numeric_columns(data); data = determine_afiliados(data)
CleanAndDerive ==
    /\ pc = "clean"
    /\ LET res == determine_afiliados(clean_numeric_columns(data))
       IN IF res.ok
          THEN /\ data' = res.data
               /\ pc' = "municipality"
               /\ error' = error
          ELSE /\ data' = clean_numeric_columns(data)
               /\ pc' = "error"
               /\ error' = res.error
    /\ UNCHANGED <<data_dir, excel_files, todo, data_frames, disk, writes, console, arg, ret>>

MunicipalityAverages ==
    /\ pc = "municipality"
    /\ LET res == create_municipality_averages(data)
       IN IF res.ok
          THEN /\ disk' = ToCsv(disk, "averages_muni.csv", res.averages)
               /\ writes' = LogWrite(writes, "averages_muni.csv")
               /\ pc' = "national"
               /\ error' = error
          ELSE /\ pc' = "error"
               /\ error' = res.error
               /\ UNCHANGED <<disk, writes>>
    /\ UNCHANGED <<data_dir, excel_files, todo, data_frames, data, console, arg, ret>>

NationalAverages ==
    /\ pc = "national"
    /\ disk' = ToCsv(disk, "averages_nacional.csv", create_national_averages(data))
    /\ writes' = LogWrite(writes, "averages_nacional.csv")
    /\ pc' = "provincial"
    /\ UNCHANGED <<data_dir, excel_files, todo, data_frames, data, console, error, arg, ret>>

ProvincialAverages ==
    /\ pc = "provincial"
    /\ disk' = ToCsv(disk, "averages_provincial.csv", create_provincial_averages(data))
    /\ writes' = LogWrite(writes, "averages_provincial.csv")
    /\ pc' = "done"
    /\ UNCHANGED <<data_dir, excel_files, todo, data_frames, data, console, error, arg, ret>>

Next ==
    \/ \E name \in FileNames : \E file \in FilesNamed(name) : MoveNewFile(file)
    \/ ListFiles
    \/ \E file \in todo : LoopBody(file)
    \/ Combine
    \/ CleanAndDerive
    \/ MunicipalityAverages
    \/ NationalAverages
    \/ ProvincialAverages

Spec == Init /\ [][Next]_vars

(***************************************************************************)
(* determine_afiliados on its own: main() lines 206-207 applied to every   *)
(* table of at most MaxDeriveRows rows over the cells below.               *)
(***************************************************************************)
RawCells == {NaN, Num(0), Num(10), Num(100), Str(CENSORED), Str(<<"n","/","a">>),
             Str(<<"1","2">>)}

DeriveYears == {2010, 2011, 2012, 2013}

DeriveCols == {"PROVINCIA", "MUNICIPIO", "year", "month", "GENERAL", "HOGAR"}

DeriveRow(y, g, h) ==
    [c \in DeriveCols |-> CASE c = "PROVINCIA" -> Str(MADRID)
                            [] c = "MUNICIPIO" -> Str(L_12040_TOWN)
                            [] c = "year" -> Num(y)
                            [] c = "month" -> Num(1)
                            [] c = "GENERAL" -> g
                            [] OTHER -> h]

DeriveRows == {DeriveRow(y, g, h) : y \in DeriveYears, g \in RawCells, h \in RawCells}

InitDerive ==
    /\ pc = "clean_call"
    /\ \E n \in 1..MaxDeriveRows : \E rs \in [1..n -> DeriveRows] : arg = Table(DeriveCols, rs)
    /\ ret = "none"
    /\ data_dir = {} /\ excel_files = {} /\ todo = {} /\ data_frames = <<>> /\ data = NoTable
    /\ disk = [f \in OutputFiles |-> Absent]
    /\ writes = <<>> /\ console = <<>> /\ error = "none"

CallClean ==
    /\ pc = "clean_call"
    /\ arg' = clean_numeric_columns(arg)
    /\ pc' = "derive_call"
    /\ UNCHANGED <<data_dir, excel_files, todo, data_frames, data, disk, writes, console, error, ret>>

CallDerive ==
    /\ pc = "derive_call"
    /\ ret' = determine_afiliados(arg)
    /\ pc' = "derive_return"
    /\ UNCHANGED <<data_dir, excel_files, todo, data_frames, data, disk, writes, console, error, arg>>

NextDerive == CallClean \/ CallDerive

SpecDerive == InitDerive /\ [][NextDerive]_vars

(***************************************************************************)
(* get_date_from_filename on its own, over the names below.                *)
(***************************************************************************)
NamePrefixes == {<<>>, <<"o","l","d","_">>, SubSeq(N_2011, 1, 21) \o <<"_">>}

NameStems == {AFILIADOS_MUNI, SubSeq(AFILIADOS_MUNI, 1, 13),
              <<"A","f","i","l","i","a","d","o","s","-">>, <<"M","u","n","i","-">>}

NameMonthChars == {"0", "1", "3", "x"}

NameYears == {<<"2","0","1","1">>, <<"2","0","1","3">>, <<"2","0","x","3">>, <<"2","0","1">>}

NameSuffixes == {<<".","x","l","s","x">>, <<"5",".","x","l","s","x">>,
                 <<"_","l","a","t","e","_","d","a","t","a",".","x","l","s","x">>}

CandidateNames ==
    {pre \o stem \o <<m1, m2, "-">> \o yyyy \o suf :
        pre \in NamePrefixes, stem \in NameStems, m1 \in NameMonthChars,
        m2 \in NameMonthChars, yyyy \in NameYears, suf \in NameSuffixes}

InitDate ==
    /\ pc = "date_call"
    /\ arg \in CandidateNames
    /\ ret = "none"
    /\ data_dir = {} /\ excel_files = {} /\ todo = {} /\ data_frames = <<>> /\ data = NoTable
    /\ disk = [f \in OutputFiles |-> Absent]
    /\ writes = <<>> /\ console = <<>> /\ error = "none"

CallDate ==
    /\ pc = "date_call"
    /\ ret' = get_date_from_filename(arg)
    /\ pc' = "date_return"
    /\ UNCHANGED <<data_dir, excel_files, todo, data_frames, data, disk, writes, console, error, arg>>

NextDate == CallDate

SpecDate == InitDate /\ [][NextDate]_vars

(***************************************************************************)
(* The three aggregations on their own, over every table of at most        *)
(* MaxAggRows MetricRows below.                                         *)
(***************************************************************************)
MetricRow(prov, muni, y, a) ==
    [c \in MetricCols |-> CASE c = "PROVINCIA" -> prov
                            [] c = "MUNICIPIO" -> muni
                            [] c = "year" -> Num(y)
                            [] c = "month" -> Num(1)
                            [] OTHER -> a]

MetricPlaces == {<<Str(NACIONAL), Str(PROVINCIAL)>>, <<Str(MADRID), Str(PROVINCIAL)>>,
                 <<Str(MADRID), Str(L_12040_TOWN)>>}

MetricRows ==
    {MetricRow(p[1], p[2], y, a) :
        p \in MetricPlaces, y \in {2011, 2013}, a \in {NaN, Num(10), Num(20)}}
    \cup {MetricRow(NaN, Str(PROVINCIAL), 2011, Num(10)),
          MetricRow(Str(NACIONAL), Str(L_12040_OTRO), 2011, Num(20)),
          MetricRow(Str(MADRID), NaN, 2011, Num(10)),
          MetricRow(Str(MADRID), Str(L_NOCODE), 2011, Num(10))}

InitAgg ==
    /\ pc = "agg_call"
    /\ \E n \in 0..MaxAggRows : \E rs \in [1..n -> MetricRows] : arg = Table(MetricCols, rs)
    /\ ret = "none"
    /\ data_dir = {} /\ excel_files = {} /\ todo = {} /\ data_frames = <<>> /\ data = NoTable
    /\ disk = [f \in OutputFiles |-> Absent]
    /\ writes = <<>> /\ console = <<>> /\ error = "none"

CallMunicipality ==
    /\ pc = "agg_call"
    /\ ret' = [fn |-> "municipality", res |-> create_municipality_averages(arg)]
    /\ pc' = "agg_return"
    /\ UNCHANGED <<data_dir, excel_files, todo, data_frames, data, disk, writes, console, error, arg>>

CallNational ==
    /\ pc = "agg_call"
    /\ ret' = [fn |-> "national",
               res |-> [ok |-> TRUE, averages |-> create_national_averages(arg)]]
    /\ pc' = "agg_return"
    /\ UNCHANGED <<data_dir, excel_files, todo, data_frames, data, disk, writes, console, error, arg>>

CallProvincial ==
    /\ pc = "agg_call"
    /\ ret' = [fn |-> "provincial",
               res |-> [ok |-> TRUE, averages |-> create_provincial_averages(arg)]]
    /\ pc' = "agg_return"
    /\ UNCHANGED <<data_dir, excel_files, todo, data_frames, data, disk, writes, console, error, arg>>

NextAgg == CallMunicipality \/ CallNational \/ CallProvincial

SpecAgg == InitAgg /\ [][NextAgg]_vars

(***************************************************************************)
(* The row filters and clean_numeric_columns on their own, composed in     *)
(* both orders over every table of at most MaxSanitizeRows rows with the   *)
(* renamed columns below.  data holds the result of the order of the       *)
(* program (row filters, then clean_numeric_columns), ret the result of    *)
(* the opposite order.                                                     *)
(***************************************************************************)
SanitizeCols == {"PROVINCIA", "MUNICIPIO", "GENERAL", "HOGAR"}

SanitizeProvincias == {NaN, Str(MADRID), Str(L_FOOTNOTE)}

SanitizeMunicipios == {NaN, Str(L_12040_TOWN), Str(SIN_DISTRIBUCION_STAR)}

SanitizeGenerals == {NaN, Num(10), Str(CENSORED), Str(<<"n","/","a">>)}

SanitizeHogares == {NaN, Str(CENSORED)}

SanitizeRow(prov, muni, gen, hog) ==
    [c \in SanitizeCols |-> CASE c = "PROVINCIA" -> prov
                              [] c = "MUNICIPIO" -> muni
                              [] c = "GENERAL" -> gen
                              [] OTHER -> hog]

SanitizeRows ==
    {SanitizeRow(prov, muni, gen, hog) :
        prov \in SanitizeProvincias, muni \in SanitizeMunicipios,
        gen \in SanitizeGenerals, hog \in SanitizeHogares}

InitSanitize ==
    /\ pc = "filters_first_call"
    /\ \E n \in 0..MaxSanitizeRows : \E rs \in [1..n -> SanitizeRows] :
           arg = Table(SanitizeCols, rs)
    /\ ret = "none"
    /\ data_dir = {} /\ excel_files = {} /\ todo = {} /\ data_frames = <<>> /\ data = NoTable
    /\ disk = [f \in OutputFiles |-> Absent]
    /\ writes = <<>> /\ console = <<>> /\ error = "none"

FiltersThenClean ==
    /\ pc = "filters_first_call"
    /\ data' = clean_numeric_columns(RowFilters(arg))
    /\ pc' = "clean_first_call"
    /\ UNCHANGED <<data_dir, excel_files, todo, data_frames, disk, writes, console, error, arg, ret>>

CleanThenFilters ==
    /\ pc = "clean_first_call"
    /\ ret' = RowFilters(clean_numeric_columns(arg))
    /\ pc' = "sanitized"
    /\ UNCHANGED <<data_dir, excel_files, todo, data_frames, data, disk, writes, console, error, arg>>

NextSanitize == FiltersThenClean \/ CleanThenFilters

SpecSanitize == InitSanitize /\ [][NextSanitize]_vars

(***************************************************************************)
(* PROPERTIES                                                              *)
(***************************************************************************)
\* The rows of the table determine_afiliados was given, with its result.
DerivedRows ==
    {[year |-> arg.rows[i]["year"].n,
      general |-> arg.rows[i]["GENERAL"],
      hogar |-> arg.rows[i]["HOGAR"],
      afiliados |-> ret.data.rows[i]["AFILIADOS"]] : i \in 1..Len(arg.rows)}

\* C1: for every row given to determine_afiliados, AFILIADOS equals GENERAL
\* when year < 2012 or HOGAR is missing, and GENERAL + HOGAR otherwise; when
\* GENERAL is missing AFILIADOS is missing, never zero.
C1_AfiliadosRule ==
    pc = "derive_return" =>
        /\ ret.ok
        /\ Len(ret.data.rows) = Len(arg.rows)
        /\ \A r \in DerivedRows :
              /\ (r.year < 2012 \/ IsNaN(r.hogar)) => r.afiliados = r.general
              /\ (r.year >= 2012 /\ ~IsNaN(r.hogar) /\ ~IsNaN(r.general)) =>
                     r.afiliados = Num(r.general.n + r.hogar.n)
              /\ IsNaN(r.general) => (IsNaN(r.afiliados) /\ r.afiliados # Num(0))

\* The spec's example: year >= 2012, GENERAL = 100, HOGAR = 10 gives 110.
C1_Witness ==
    /\ pc = "derive_return"
    /\ \E r \in DerivedRows :
          /\ r.year >= 2012 /\ r.general = Num(100) /\ r.hogar = Num(10)
          /\ r.afiliados = Num(110)

\* C7 as stated: AFILIADOS is missing only when GENERAL and HOGAR are both
\* missing.
C7_MissingOnlyWhenAllMissing ==
    pc = "derive_return" =>
        \A r \in DerivedRows :
            IsNaN(r.afiliados) => (IsNaN(r.general) /\ IsNaN(r.hogar))

\* C7 amended: AFILIADOS is missing exactly when GENERAL is missing, whatever
\* HOGAR holds; a row with year >= 2012, GENERAL missing and HOGAR present
\* gets a missing AFILIADOS.
C7_MissingIffGeneralMissing ==
    pc = "derive_return" =>
        \A r \in DerivedRows :
            /\ IsNaN(r.afiliados) <=> IsNaN(r.general)
            /\ (r.year >= 2012 /\ IsNaN(r.general) /\ ~IsNaN(r.hogar)) =>
                   IsNaN(r.afiliados)

C7_Witness ==
    /\ pc = "derive_return"
    /\ \E r \in DerivedRows :
          /\ r.year >= 2012 /\ IsNaN(r.general) /\ r.hogar = Num(10)
          /\ IsNaN(r.afiliados)

\* The spec's pattern for a dated name, <prefix>-MM-YYYY with MM in 01..12,
\* at position i: the prefix is the one the files carry.
DatedAt(name, i) ==
    /\ i + 20 <= Len(name)
    /\ SubSeq(name, i, i + 13) = AFILIADOS_MUNI
    /\ AllDigits(SubSeq(name, i + 14, i + 15))
    /\ DecVal(SubSeq(name, i + 14, i + 15)) \in 1..12
    /\ name[i + 16] = "-"
    /\ AllDigits(SubSeq(name, i + 17, i + 20))

\* C9: a name holding the pattern -MM-YYYY with MM in 01..12 gives exactly
\* that (year, month), whatever precedes or follows; a name without it (one
\* whose month is outside 01..12 included) fails with an error.
C9_DateOrError ==
    pc = "date_return" =>
        IF \E i \in 1..Len(arg) : DatedAt(arg, i)
        THEN /\ ret.ok
             /\ \E i \in 1..Len(arg) :
                   /\ DatedAt(arg, i)
                   /\ ret.month = DecVal(SubSeq(arg, i + 14, i + 15))
                   /\ ret.year = DecVal(SubSeq(arg, i + 17, i + 20))
        ELSE ~ret.ok

RECURSIVE SumOfValues(_, _)
\* The sum of the AFILIADOS values of the rows of t whose index is in idx.
SumOfValues(t, idx) ==
    IF idx = {} THEN 0
    ELSE LET i == CHOOSE j \in idx : TRUE
         IN t.rows[i]["AFILIADOS"].n + SumOfValues(t, idx \ {i})

\* value is the arithmetic mean of the values present among the rows idx of
\* t, and is missing when none of them is present.
IsMeanOfRows(value, t, idx) ==
    LET present == {i \in idx : ~IsNaN(t.rows[i]["AFILIADOS"])}
    IN /\ idx # {}
       /\ IF present = {} THEN value = NaN
          ELSE /\ IsNum(value)
               /\ value.d > 0
               /\ value.n * Cardinality(present) = SumOfValues(t, present) * value.d

\* The rows of t an aggregation is restricted to, and the key of each.
InMunicipalityTable(t, i) ==
    ~IsNaN(t.rows[i]["MUNICIPIO"]) /\ t.rows[i]["MUNICIPIO"] # Str(PROVINCIAL)

InProvincialTable(t, i) ==
    t.rows[i]["MUNICIPIO"] = Str(PROVINCIAL) /\ ~IsNaN(t.rows[i]["PROVINCIA"])

InNationalTable(t, i) == t.rows[i]["PROVINCIA"] = Str(NACIONAL)

Indices(t) == 1..Len(t.rows)

MunicipalityMeansRight(t, averages) ==
    /\ \A r \in averages :
          IsMeanOfRows(r.AFILIADOS, t,
              {i \in Indices(t) : /\ InMunicipalityTable(t, i)
                                  /\ CodeOf(t.rows[i]["MUNICIPIO"]).code = r.MUNI_CODE
                                  /\ t.rows[i]["year"].n = r.year})
    /\ \A i \in Indices(t) :
          InMunicipalityTable(t, i) =>
              \E r \in averages : /\ r.MUNI_CODE = CodeOf(t.rows[i]["MUNICIPIO"]).code
                                  /\ r.year = t.rows[i]["year"].n

ProvincialMeansRight(t, averages) ==
    /\ \A r \in averages :
          IsMeanOfRows(r.AFILIADOS, t,
              {i \in Indices(t) : /\ InProvincialTable(t, i)
                                  /\ t.rows[i]["PROVINCIA"] = r.PROVINCIA
                                  /\ t.rows[i]["year"].n = r.year})
    /\ \A i \in Indices(t) :
          InProvincialTable(t, i) =>
              \E r \in averages : /\ r.PROVINCIA = t.rows[i]["PROVINCIA"]
                                  /\ r.year = t.rows[i]["year"].n

NationalMeansRight(t, averages) ==
    /\ \A r \in averages :
          /\ r.PROVINCIA = Str(NACIONAL)
          /\ IsMeanOfRows(r.AFILIADOS, t,
                 {i \in Indices(t) : /\ InNationalTable(t, i)
                                     /\ t.rows[i]["year"].n = r.year})
    /\ \A i \in Indices(t) :
          InNationalTable(t, i) => \E r \in averages : r.year = t.rows[i]["year"].n

\* C2: in each of the three aggregate tables the value of every output row
\* is the arithmetic mean of the non-missing AFILIADOS of exactly the
\* restricted rows sharing its key and year; a missing value is never counted
\* as 0, and a group whose members are all missing has a missing mean.
C2_GroupedMeans ==
    (pc = "agg_return" /\ ret.res.ok) =>
        CASE ret.fn = "municipality" -> MunicipalityMeansRight(arg, ret.res.averages)
          [] ret.fn = "provincial" -> ProvincialMeansRight(arg, ret.res.averages)
          [] OTHER -> NationalMeansRight(arg, ret.res.averages)

\* The spec's example: the group {10, missing, 20} has mean 15.
C2_Witness ==
    /\ pc = "agg_return"
    /\ ret.fn = "municipality"
    /\ ret.res.ok
    /\ Len(arg.rows) = 3
    /\ \A i \in 1..3 : arg.rows[i]["MUNICIPIO"] = Str(L_12040_TOWN) /\ arg.rows[i]["year"] = Num(2011)
    /\ arg.rows[1]["AFILIADOS"] = Num(10)
    /\ arg.rows[2]["AFILIADOS"] = NaN
    /\ arg.rows[3]["AFILIADOS"] = Num(20)
    /\ ret.res.averages = {[MUNI_CODE |-> 12040, year |-> 2011,
                            AFILIADOS |-> [k |-> "num", n |-> 15, d |-> 1]]}

(***************************************************************************)
(* The run as a whole.                                                     *)
(***************************************************************************)
\* A file whose processing fails: unreadable, without one of the two columns
\* the filters read, or with a name that lacks the date pattern.
LacksDatePattern(name) == ~\E i \in 1..Len(name) : MatchAt(name, i)

FileFails(f) ==
    \/ ~f.readable
    \/ "PROVINCIA" \notin f.table.cols
    \/ "MUNICIPIO" \notin f.table.cols
    \/ LacksDatePattern(f.name)

Processed == excel_files \ todo

Succeeded == {f \in Processed : ~FileFails(f)}

RECURSIVE TotalRows(_)
TotalRows(fs) ==
    IF fs = {} THEN 0
    ELSE LET f == CHOOSE x \in fs : TRUE
         IN Len(ProcessFile(f).frame.rows) + TotalRows(fs \ {f})

\* Row r of a frame is a row of table t (the columns r lacks aside).
RowIn(r, t) == \E j \in 1..Len(t.rows) : \A c \in DOMAIN r : t.rows[j][c] = r[c]

FileWritten(name) == disk[name].present

\* C3: a file whose name lacks the date pattern (or whose processing fails
\* at another step) contributes no rows, the run goes on with the remaining
\* files, and every row of every successfully processed file is in the
\* combined table.
C3_FailedFileSkipped ==
    LET frame == [f \in Succeeded |-> ProcessFile(f).frame]
    IN /\ todo # {} => pc = "loop"
       /\ Len(data_frames) = Cardinality(Succeeded)
       /\ \A f \in Succeeded : \E k \in 1..Len(data_frames) : data_frames[k] = frame[f]
       /\ \A f \in Processed \ Succeeded :
             \E k \in 1..Len(console) :
                 console[k] = [name |-> f.name, line |-> "Error processing"]
       /\ (Succeeded # {} /\ todo = {} /\ pc \notin {"start", "loop"}) =>
              FileWritten("all_data.csv")
       /\ FileWritten("all_data.csv") =>
              LET combined == disk["all_data.csv"].content
              IN /\ Len(combined.rows) = TotalRows(Succeeded)
                 /\ \A f \in Succeeded :
                       \A i \in 1..Len(frame[f].rows) : RowIn(frame[f].rows[i], combined)

\* An undated file and a file with rows were both processed, and the
\* combined table holds the rows of the second alone.
C3_Witness ==
    /\ FileWritten("all_data.csv")
    /\ \E f \in Processed : LacksDatePattern(f.name) /\ Len(f.table.rows) > 0
    /\ Cardinality(Succeeded) = 1
    /\ Len(disk["all_data.csv"].content.rows) > 0

\* C4: a run whose combined table has no rows after all files were processed
\* ends in an error and writes none of the four output files.
C4_NoRowsNoOutput ==
    (pc \notin {"start", "loop"} /\ TotalRows(Succeeded) = 0) =>
        /\ pc # "done"
        /\ \A name \in OutputFiles : ~FileWritten(name)

Occurrences(w, name) == Cardinality({k \in 1..Len(w) : w[k] = name})

\* C5: a run that reaches aggregation has written the combined table exactly
\* once, with the rows of all successfully processed files, after the last
\* input file was processed and before any aggregate is computed or written.
C5_CombinedSavedOnceFirst ==
    /\ Occurrences(writes, "all_data.csv") <= 1
    /\ FileWritten("all_data.csv") <=> Occurrences(writes, "all_data.csv") = 1
    /\ pc \in {"municipality", "national", "provincial", "done"} =>
           FileWritten("all_data.csv")
    /\ Len(writes) > 0 => writes[1] = "all_data.csv"
    /\ FileWritten("all_data.csv") =>
           /\ todo = {}
           /\ pc \notin {"start", "loop"}
           /\ Len(data_frames) = Cardinality(Succeeded)
           /\ disk["all_data.csv"].content = Concat(data_frames)

C5_Witness ==
    /\ pc = "done"
    /\ Len(data_frames) = 2
    /\ writes = <<"all_data.csv", "averages_muni.csv", "averages_nacional.csv",
                  "averages_provincial.csv">>

\* The orders in which the loop may take the files.
Orders(files) ==
    {o \in [1..Cardinality(files) -> files] :
        \A i, j \in 1..Cardinality(files) : o[i] = o[j] => i = j}

RECURSIVE FramesInOrder(_)
FramesInOrder(order) ==
    IF Len(order) = 0 THEN <<>>
    ELSE LET res == ProcessFile(Head(order))
         IN (IF res.ok THEN <<res.frame>> ELSE <<>>) \o FramesInOrder(Tail(order))

\* The three aggregate tables of a run that takes the files in this order.
AggregatesInOrder(order) ==
    LET frames == FramesInOrder(order)
    IN IF Len(frames) = 0 THEN [ok |-> FALSE]
       ELSE LET d == determine_afiliados(clean_numeric_columns(Concat(frames)))
            IN IF ~d.ok THEN [ok |-> FALSE]
               ELSE LET m == create_municipality_averages(d.data)
                    IN IF ~m.ok THEN [ok |-> FALSE]
                       ELSE [ok |-> TRUE,
                             muni |-> m.averages,
                             nacional |-> create_national_averages(d.data),
                             provincial |-> create_provincial_averages(d.data)]

\* C6: the three aggregate tables do not depend on the order in which the
\* files are processed: every order of the same files gives the tables this
\* run wrote (and no order completes when this run aborted).
C6_OrderIndependent ==
    /\ pc = "done" =>
           \A o \in Orders(excel_files) :
               AggregatesInOrder(o) =
                   [ok |-> TRUE,
                    muni |-> disk["averages_muni.csv"].content,
                    nacional |-> disk["averages_nacional.csv"].content,
                    provincial |-> disk["averages_provincial.csv"].content]
    /\ (pc = "error" /\ excel_files # {}) =>
           \A o \in Orders(excel_files) : ~AggregatesInOrder(o).ok

\* Two files of 2013 each give municipality 12040 a value (30 and 20): the
\* mean over both is 25.
C6_Witness ==
    /\ pc = "done"
    /\ Len(data_frames) = 2
    /\ [MUNI_CODE |-> 12040, year |-> 2013, AFILIADOS |-> [k |-> "num", n |-> 25, d |-> 1]]
           \in disk["averages_muni.csv"].content

\* C8: in the persisted combined table every regime-count and total cell is
\* a number or missing; "<5" and other text never appear in it.
C8_PersistedCellsNumeric ==
    FileWritten("all_data.csv") =>
        LET combined == disk["all_data.csv"].content
        IN \A i \in 1..Len(combined.rows) :
              \A c \in combined.cols \cap numeric_columns :
                  IsNum(combined.rows[i][c]) \/ IsNaN(combined.rows[i][c])

\* A row that reaches the municipality aggregation with a label whose first
\* token is no integer.
HasLeadingInteger(cell) ==
    /\ IsStr(cell)
    /\ Len(FirstToken(cell.s)) > 0
    /\ IsIntText(FirstToken(cell.s))

MalformedLabelReaches(t) ==
    /\ "MUNICIPIO" \in t.cols
    /\ \E i \in Indices(t) :
          InMunicipalityTable(t, i) /\ ~HasLeadingInteger(t.rows[i]["MUNICIPIO"])

\* C10: when a row reaching the municipality aggregation has a label whose
\* first token is no integer, the run aborts and no municipality table is
\* written; for well-formed labels the code is the integer value of the
\* first token ("12040 Example Town" gives 12040).
C10_MalformedLabelAborts ==
    /\ MalformedLabelReaches(data) =>
           /\ pc \in {"clean", "municipality", "error"}
           /\ ~FileWritten("averages_muni.csv")
           /\ ~FileWritten("averages_nacional.csv")
           /\ ~FileWritten("averages_provincial.csv")
    /\ FileWritten("averages_muni.csv") =>
           /\ \A i \in Indices(data) :
                 InMunicipalityTable(data, i) =>
                     \E r \in disk["averages_muni.csv"].content :
                         /\ r.year = data.rows[i]["year"].n
                         /\ IntToText(r.MUNI_CODE) = FirstToken(data.rows[i]["MUNICIPIO"].s)
           /\ \A i \in Indices(data) :
                 data.rows[i]["MUNICIPIO"] = Str(L_12040_TOWN) =>
                     \E r \in disk["averages_muni.csv"].content : r.MUNI_CODE = 12040

C10_Witness ==
    /\ pc = "error"
    /\ error = "ValueError"
    /\ MalformedLabelReaches(data)
    /\ FileWritten("all_data.csv")
    /\ ~FileWritten("averages_muni.csv")

\* The rows of a table as a set.
RowSet(t) == {t.rows[i] : i \in 1..Len(t.rows)}

\* A row with no cell at all.
AllMissing(row) == \A c \in DOMAIN row : IsNaN(row[c])

\* A row that has cells, all of them in the numeric columns and all of them
\* text that clean_numeric_columns turns into NaN.
OnlyNonNumericText(row) ==
    /\ ~AllMissing(row)
    /\ \A c \in DOMAIN row \ numeric_columns : IsNaN(row[c])
    /\ \A c \in DOMAIN row \cap numeric_columns : IsNaN(CleanCell(row[c]))

\* C11 as stated: clean_numeric_columns and the row filters commute; both
\* orders yield the same set of rows for every table.
C11_SanitizersCommute ==
    pc = "sanitized" => RowSet(ret) = RowSet(data)

\* C11 as amended: the rows of clean_numeric_columns-then-filters are the rows
\* of filters-then-clean_numeric_columns that are not entirely missing, in the
\* same order; the two orders give the same table exactly when the input has
\* no row whose only cells are text that clean_numeric_columns makes missing.
C11_CommuteUpToEmptiedRows ==
    pc = "sanitized" =>
        /\ ret.cols = data.cols
        /\ ret.rows = SelectSeq2(data.rows,
                                 {i \in 1..Len(data.rows) : ~AllMissing(data.rows[i])})
        /\ (ret = data) <=> (\A i \in 1..Len(arg.rows) : ~OnlyNonNumericText(arg.rows[i]))

\* Both orders ran on a table with a row of censored markers only, next to
\* a row with a censored marker that both orders keep.
C11_Witness ==
    /\ pc = "sanitized"
    /\ Len(arg.rows) = 2
    /\ arg.rows[1] = SanitizeRow(NaN, NaN, Str(CENSORED), Str(CENSORED))
    /\ arg.rows[2] = SanitizeRow(Str(MADRID), Str(L_12040_TOWN), Num(10), Str(CENSORED))
    /\ Len(data.rows) = 2
    /\ AllMissing(data.rows[1])
    /\ ret.rows = <<SanitizeRow(Str(MADRID), Str(L_12040_TOWN), Num(10), NaN)>>

=============================================================================
